---- MODULE Spec2Model ----
(***************************************************************************)
(* Model of util/convert_cookies.py: a one-shot conversion of a JSON       *)
(* cookie export into a Netscape cookie file.                              *)
(*                                                                         *)
(* Text is modelled as sequences of one-character strings, so that the     *)
(* tab join, the line terminator, str(int(..)) and str.startswith are      *)
(* computed rather than assumed.  JSON values are records of one shape     *)
(* [t, s, n, f, neg]: t is the Python type after json.load, s the text of  *)
(* a str, n the value of an int/bool or the whole part of a float's        *)
(* magnitude, f the first fractional digit of a float, neg its sign.       *)
(* The output path is taken to be writable; the file content is the        *)
(* logical content of the stream (what is on disk once it is closed).      *)
(***************************************************************************)
EXTENDS Integers, Sequences, FiniteSets, TLC

\* pc        the statement the script is at ("done": the process has exited)
\* pyMajor   sys.version_info[0]
\* inFile    the input path: missing, unreadable, malformed, or JSON text
\* outFile   the output path: whether it exists, and its content
\* outFile0  the output path as it was before the run
\* cookies   the value json.load returned
\* idx       the position of the for loop in cookies
\* written   the field lists the loop has joined and written so far
\* inOpen, outOpen   whether the input / output handle is open
\* stdout    the messages printed
\* exc       the exception that ended the run ("none": no exception)
\* exitCode  the exit status (-1 while the script runs)
VARIABLES pc, pyMajor, inFile, outFile, outFile0, cookies, idx, written,
          inOpen, outOpen, stdout, exc, exitCode

vars == <<pc, pyMajor, inFile, outFile, outFile0, cookies, idx, written,
          inOpen, outOpen, stdout, exc, exitCode>>

\* ---------------------------------------------------------------- bounds
MaxLen == 2

\* ------------------------------------------------------- program constants
DefaultExpiration == 2147483647

RequiredMajor == 3

\* ------------------------------------------------------------------- text
TAB == "\t"

NL == "\n"

Digits == <<"0", "1", "2", "3", "4", "5", "6", "7", "8", "9">>

T_TRUE == <<"T", "R", "U", "E">>

T_FALSE == <<"F", "A", "L", "S", "E">>

HeaderLine == <<"#", " ", "N", "e", "t", "s", "c", "a", "p", "e", " ",
                "H", "T", "T", "P", " ", "C", "o", "o", "k", "i", "e", " ",
                "F", "i", "l", "e">>

Header == HeaderLine \o <<NL, NL>>

\* ------------------------------------------------------------ JSON values
V(t, s, n, f, neg) == [t |-> t, s |-> s, n |-> n, f |-> f, neg |-> neg]

Absent == V("absent", <<>>, 0, 0, FALSE)

JNull == V("null", <<>>, 0, 0, FALSE)

JBool(b) == V("bool", <<>>, IF b THEN 1 ELSE 0, 0, FALSE)

JInt(n) == V("int", <<>>, n, 0, FALSE)

JFloat(neg, whole, tenth) == V("float", <<>>, whole, tenth, neg)

NaN == V("nan", <<>>, 0, 0, FALSE)

Infinity == V("inf", <<>>, 0, 0, FALSE)

JStr(s) == V("str", s, 0, 0, FALSE)

\* an element of the top-level value: a dict with the six keys the script
\* reads (Absent = key not in the dict), or anything that is not a dict
Cookie(d, p, s, e, n, v) ==
  [isMap |-> TRUE, domain |-> d, path |-> p, secure |-> s,
   expirationDate |-> e, name |-> n, value |-> v]

NotADict ==
  [isMap |-> FALSE, domain |-> Absent, path |-> Absent, secure |-> Absent,
   expirationDate |-> Absent, name |-> Absent, value |-> Absent]

EmptyCookie == Cookie(Absent, Absent, Absent, Absent, Absent, Absent)

\* the top-level value: t = "arr" (items = its elements), "obj" (a dict:
\* iterating it yields its keys, which are str), "str" (iterating yields
\* one-character str) or "scalar" (None, a number, a bool: not iterable)
Top(t, items) == [t |-> t, items |-> items]

NoValue == Top("unset", <<>>)

\* ------------------------------------------------------- Python built-ins
\* str.startswith(prefix)
StartsWithAnywhere(s, prefix) ==
  \E i \in 1..Len(s) : SubSeq(s, i, i + Len(prefix) - 1) = prefix

StartsWith(s, prefix) ==
  /\ Len(s) >= Len(prefix)
  /\ SubSeq(s, 1, Len(prefix)) = prefix

\* dict.get(key, default): the default only when the key is not in the dict
\* (a key holding JSON null yields None, not the default)
Get(v, default) == IF v.t = "absent" THEN default ELSE v

\* truth value of an object, as `if x` takes it
Truthy(v) ==
  CASE v.t = "bool" -> v.n = 1
    [] v.t = "int" -> v.n # 0
    [] v.t = "float" -> v.n # 0 \/ v.f # 0
    [] v.t = "nan" -> TRUE
    [] v.t = "inf" -> TRUE
    [] v.t = "str" -> Len(v.s) > 0
    [] OTHER -> FALSE

\* str(n) of an int: decimal digits, most significant first, "-" when n < 0
RECURSIVE NatToStr(_)
NatToStr(n) ==
  IF n < 10 THEN <<Digits[n + 1]>>
  ELSE NatToStr(n \div 10) \o <<Digits[(n % 10) + 1]>>

IntToStr(n) == IF n < 0 THEN <<"-">> \o NatToStr(0 - n) ELSE NatToStr(n)

\* int(s) of a str: surrounding whitespace is stripped, one optional sign,
\* then decimal digits only; anything else raises ValueError
IsSpace(c) == c \in {" ", TAB, NL}

IsDigit(c) == \E d \in 1..10 : Digits[d] = c

DigitVal(c) == (CHOOSE d \in 1..10 : Digits[d] = c) - 1

RECURSIVE Strip(_)
Strip(s) ==
  IF s = <<>> THEN s
  ELSE IF IsSpace(s[1]) THEN Strip(Tail(s))
  ELSE IF IsSpace(s[Len(s)]) THEN Strip(SubSeq(s, 1, Len(s) - 1))
  ELSE s

RECURSIVE DigitsToNat(_)
DigitsToNat(s) ==
  IF s = <<>> THEN 0
  ELSE DigitsToNat(SubSeq(s, 1, Len(s) - 1)) * 10 + DigitVal(s[Len(s)])

ParseInt(s) ==
  LET t == Strip(s)
      signed == t # <<>> /\ t[1] \in {"+", "-"}
      body == IF signed THEN Tail(t) ELSE t
  IN  IF body = <<>> \/ \E i \in 1..Len(body) : ~IsDigit(body[i])
      THEN [err |-> "ValueError", n |-> 0]
      ELSE [err |-> "none",
            n |-> IF signed /\ t[1] = "-" THEN 0 - DigitsToNat(body)
                  ELSE DigitsToNat(body)]

\* int(x): truncation toward zero of a float, the value of an int or bool,
\* the parse of a str; None, NaN and the infinities raise
PyIntFloor(v) ==
  CASE v.t \in {"int", "bool"} -> [err |-> "none", n |-> v.n]
    [] v.t = "float" ->
         [err |-> "none",
          n |-> IF v.neg THEN (IF v.f > 0 THEN 0 - (v.n + 1) ELSE 0 - v.n)
                ELSE v.n]
    [] v.t = "str" -> ParseInt(v.s)
    [] v.t = "nan" -> [err |-> "ValueError", n |-> 0]
    [] v.t = "inf" -> [err |-> "OverflowError", n |-> 0]
    [] OTHER -> [err |-> "TypeError", n |-> 0]

PyInt(v) ==
  CASE v.t \in {"int", "bool"} -> [err |-> "none", n |-> v.n]
    [] v.t = "float" -> [err |-> "none", n |-> IF v.neg THEN 0 - v.n ELSE v.n]
    [] v.t = "str" -> ParseInt(v.s)
    [] v.t = "nan" -> [err |-> "ValueError", n |-> 0]
    [] v.t = "inf" -> [err |-> "OverflowError", n |-> 0]
    [] OTHER -> [err |-> "TypeError", n |-> 0]

\* "\t".join(list) of a list of str
RECURSIVE JoinWith(_, _)
JoinWith(sep, list) ==
  IF list = <<>> THEN <<>>
  ELSE IF Len(list) = 1 THEN list[1]
  ELSE list[1] \o <<sep>> \o JoinWith(sep, Tail(list))

JoinSpace(list) == JoinWith(" ", list)

JoinTab(list) == JoinWith(TAB, list)

\* ------------------------------------------------- the per-cookie mapping
Mapped(fields) == [err |-> "none", fields |-> fields]

Raise(e) == [err |-> e, fields |-> <<>>]

AllStr(vs) == \A i \in 1..Len(vs) : vs[i].t = "str"

\* the body of the for loop up to the argument of f.write: the list handed
\* to "\t".join, or the exception the body raises
MapCookie(cookie) ==
  IF ~cookie.isMap THEN Raise("AttributeError")
  ELSE
    LET domain == Get(cookie.domain, JStr(<<>>))
    IN  IF domain.t # "str" THEN Raise("AttributeError")
        ELSE
          LET include_subdomain ==
                IF StartsWith(domain.s, <<".">>) THEN T_TRUE ELSE T_FALSE
              path == Get(cookie.path, JStr(<<"/">>))
              secure == IF Truthy(Get(cookie.secure, JBool(FALSE)))
                        THEN T_TRUE ELSE T_FALSE
              expires ==
                PyInt(Get(cookie.expirationDate, JInt(DefaultExpiration)))
              name == Get(cookie.name, JStr(<<>>))
              value == Get(cookie.value, JStr(<<>>))
          IN  IF expires.err # "none" THEN Raise(expires.err)
              ELSE IF ~AllStr(<<path, name, value>>) THEN Raise("TypeError")
              ELSE Mapped(<<domain.s, include_subdomain, path.s, secure,
                            IntToStr(expires.n), name.s, value.s>>)

\* the text one iteration writes: the joined fields and the line terminator
Line(fields) == JoinTab(fields) \o <<NL>>

\* ------------------------------------------------------------------ files
\* open(output_file, "w"): the file exists afterwards and is empty
OpenForAppend(file) == [exists |-> TRUE, data |-> file.data]

OpenForWrite(file) == [exists |-> TRUE, data |-> <<>>]

\* leaving a with-block, normally or by an exception, closes the handle
LeaveOpen(handle) == handle

WithExit(handle) == FALSE

\* json.load(f): the parsed value, or JSONDecodeError
JsonLoadLenient(file) ==
  IF file.st = "json" THEN [err |-> "none", val |-> file.top]
  ELSE [err |-> "none", val |-> Top("arr", <<>>)]

JsonLoad(file) ==
  IF file.st = "json" THEN [err |-> "none", val |-> file.top]
  ELSE [err |-> "JSONDecodeError", val |-> NoValue]

\* iter(cookies): None, numbers and bools are not iterable
Iterable(top) == top.t \in {"arr", "obj", "str"}

\* the order in which the for loop visits the elements
RECURSIVE Reversed(_)
Reversed(top) ==
  IF top.items = <<>> THEN <<>>
  ELSE Append(Reversed(Top(top.t, Tail(top.items))), top.items[1])

Items(top) == top.items

\* `not cookies`: an empty list, dict or str is false
NeverFalsy(top) == FALSE

Falsy(top) == Len(top.items) = 0

\* ------------------------------------------------------------ the inputs
Dom_example == <<".", "e", "x", "a", "m", "p", "l", "e", ".", "c", "o", "m">>

C8Cookie ==
  Cookie(JStr(Dom_example), Absent, JBool(TRUE), Absent,
         JStr(<<"s", "i", "d">>), JStr(<<"a", "b", "c", "1", "2", "3">>))

FullCookie ==
  Cookie(JStr(<<".", "b">>), JStr(<<"/", "p">>), JBool(FALSE),
         JFloat(FALSE, 1700000000, 7), JStr(<<"n">>), JStr(<<"v">>))

DomainVals == {JStr(<<>>), JStr(<<".", "a">>), JStr(<<"a", ".">>), JNull}

PathVals == {JStr(<<"/", "p">>), JNull}

SecureVals == {JBool(TRUE), JBool(FALSE), JStr(<<"n", "o">>)}

ExpirationVals ==
  {JInt(17), JFloat(FALSE, 1700000000, 7), JFloat(TRUE, 1, 7), NaN,
   JStr(<<"1", "7", NL>>), JStr(<<"a">>), JNull}

NameVals == {JStr(<<"n">>)}

ValueVals == {JStr(<<"v">>), JStr(<<"v", NL, "w">>)}

Elements ==
  {EmptyCookie, C8Cookie, FullCookie, NotADict}
  \cup {Cookie(d, Absent, Absent, Absent, Absent, Absent) : d \in DomainVals}
  \cup {Cookie(Absent, p, Absent, Absent, Absent, Absent) : p \in PathVals}
  \cup {Cookie(Absent, Absent, s, Absent, Absent, Absent) : s \in SecureVals}
  \cup {Cookie(Absent, Absent, Absent, e, Absent, Absent) : e \in ExpirationVals}
  \cup {Cookie(Absent, Absent, Absent, Absent, n, Absent) : n \in NameVals}
  \cup {Cookie(Absent, Absent, Absent, Absent, Absent, v) : v \in ValueVals}

Arrays == UNION {[1..n -> Elements] : n \in 0..MaxLen}

Tops ==
  {Top("arr", a) : a \in Arrays}
  \cup {Top("obj", <<>>), Top("obj", <<NotADict>>),
        Top("str", <<>>), Top("str", <<NotADict, NotADict>>),
        Top("scalar", <<>>)}

InputFiles ==
  {[st |-> st, top |-> NoValue] : st \in {"missing", "unreadable", "malformed"}}
  \cup {[st |-> "json", top |-> t] : t \in Tops}

OutputFiles ==
  {[exists |-> FALSE, data |-> <<>>],
   [exists |-> TRUE, data |-> <<"o", "l", "d", NL>>]}

Msg(m, n) == [m |-> m, n |-> n]

\* ------------------------------------------------------------ the program
Init ==
  /\ pc = "start"
  /\ pyMajor \in {2, 3}
  /\ inFile \in InputFiles
  /\ outFile \in OutputFiles
  /\ outFile0 = outFile
  /\ cookies = NoValue
  /\ idx = 0
  /\ written = <<>>
  /\ inOpen = FALSE
  /\ outOpen = FALSE
  /\ stdout = <<>>
  /\ exc = "none"
  /\ exitCode = -1

\* an uncaught exception: traceback, interpreter exits with status 1
Die(e) ==
  /\ pc' = "done"
  /\ exc' = e
  /\ exitCode' = 1

VersionCheck ==
  /\ pc = "start"
  /\ IF pyMajor < RequiredMajor
     THEN /\ stdout' = Append(stdout, Msg("requires Python 3", 0))
          /\ pc' = "done"
          /\ exitCode' = 1
     ELSE /\ pc' = "open_in"
          /\ UNCHANGED <<stdout, exitCode>>
  /\ UNCHANGED <<pyMajor, inFile, outFile, outFile0, cookies, idx, written,
                 inOpen, outOpen, exc>>

OpenInput ==
  /\ pc = "open_in"
  /\ IF inFile.st = "missing" THEN Die("FileNotFoundError") /\ UNCHANGED inOpen
     ELSE IF inFile.st = "unreadable"
     THEN Die("PermissionError") /\ UNCHANGED inOpen
     ELSE /\ inOpen' = TRUE
          /\ pc' = "load"
          /\ UNCHANGED <<exc, exitCode>>
  /\ UNCHANGED <<pyMajor, inFile, outFile, outFile0, cookies, idx, written,
                 outOpen, stdout>>

LoadJson ==
  /\ pc = "load"
  /\ inOpen' = WithExit(inOpen)
  /\ LET r == JsonLoad(inFile)
     IN  IF r.err # "none" THEN Die(r.err) /\ UNCHANGED cookies
         ELSE /\ cookies' = r.val
              /\ pc' = "open_out"
              /\ UNCHANGED <<exc, exitCode>>
  /\ UNCHANGED <<pyMajor, inFile, outFile, outFile0, idx, written,
                 outOpen, stdout>>

OpenOutput ==
  /\ pc = "open_out"
  /\ outFile' = OpenForWrite(outFile)
  /\ outOpen' = TRUE
  /\ pc' = "header"
  /\ UNCHANGED <<pyMajor, inFile, outFile0, cookies, idx, written, inOpen,
                 stdout, exc, exitCode>>

WriteHeader ==
  /\ pc = "header"
  /\ outFile' = [outFile EXCEPT !.data = @ \o Header]
  /\ idx' = 1
  /\ pc' = "loop"
  /\ UNCHANGED <<pyMajor, inFile, outFile0, cookies, written, inOpen,
                 outOpen, stdout, exc, exitCode>>

\* `for cookie in cookies` on a value that cannot be iterated
IterFail ==
  /\ pc = "loop"
  /\ ~Iterable(cookies)
  /\ Die("TypeError")
  /\ outOpen' = WithExit(outOpen)
  /\ UNCHANGED <<pyMajor, inFile, outFile, outFile0, cookies, idx, written,
                 inOpen, stdout>>

\* one iteration whose body runs to the end: one f.write of the joined line
WriteRecord ==
  /\ pc = "loop"
  /\ Iterable(cookies)
  /\ idx <= Len(Items(cookies))
  /\ LET r == MapCookie(Items(cookies)[idx])
     IN  /\ r.err = "none"
         /\ outFile' = [outFile EXCEPT !.data = @ \o Line(r.fields)]
         /\ written' = Append(written, r.fields)
  /\ idx' = idx + 1
  /\ UNCHANGED <<pc, pyMajor, inFile, outFile0, cookies, inOpen, outOpen,
                 stdout, exc, exitCode>>

\* (variant: the failing record is skipped and the loop goes on)
RecordSkip ==
  /\ pc = "loop"
  /\ Iterable(cookies)
  /\ idx <= Len(Items(cookies))
  /\ MapCookie(Items(cookies)[idx]).err # "none"
  /\ idx' = idx + 1
  /\ UNCHANGED <<pc, pyMajor, inFile, outFile, outFile0, cookies, written,
                 inOpen, outOpen, stdout, exc, exitCode>>

\* one iteration whose body raises: nothing of the record is written
RecordFail ==
  /\ pc = "loop"
  /\ Iterable(cookies)
  /\ idx <= Len(Items(cookies))
  /\ LET r == MapCookie(Items(cookies)[idx])
     IN  /\ r.err # "none"
         /\ Die(r.err)
  /\ outOpen' = WithExit(outOpen)
  /\ UNCHANGED <<pyMajor, inFile, outFile, outFile0, cookies, idx, written,
                 inOpen, stdout>>

\* the loop is exhausted: the with-block ends and closes the output
CloseOutput ==
  /\ pc = "loop"
  /\ Iterable(cookies)
  /\ idx > Len(Items(cookies))
  /\ outOpen' = WithExit(outOpen)
  /\ pc' = "check"
  /\ UNCHANGED <<pyMajor, inFile, outFile, outFile0, cookies, idx, written,
                 inOpen, stdout, exc, exitCode>>

EmptyCheck ==
  /\ pc = "check"
  /\ IF Falsy(cookies)
     THEN /\ stdout' = Append(stdout, Msg("No cookies found in JSON. Aborting.", 0))
          /\ pc' = "done"
          /\ exitCode' = 1
     ELSE /\ pc' = "summary"
          /\ UNCHANGED <<stdout, exitCode>>
  /\ UNCHANGED <<pyMajor, inFile, outFile, outFile0, cookies, idx, written,
                 inOpen, outOpen, exc>>

Summary ==
  /\ pc = "summary"
  /\ stdout' = stdout \o <<Msg("Converted", Len(cookies.items)),
                           Msg("Saved to", 0),
                           Msg("Conversion complete.", 0)>>
  /\ pc' = "done"
  /\ exitCode' = 0
  /\ UNCHANGED <<pyMajor, inFile, outFile, outFile0, cookies, idx, written,
                 inOpen, outOpen, exc>>

Next ==
  \/ VersionCheck
  \/ OpenInput
  \/ LoadJson
  \/ OpenOutput
  \/ WriteHeader
  \/ IterFail
  \/ WriteRecord
  \/ RecordFail
  \/ CloseOutput
  \/ EmptyCheck
  \/ Summary

Spec == Init /\ [][Next]_vars

\* ------------------------------------------------- vocabulary of the claims
\* the lines of a text, as str.splitlines cuts it at "\n"
SplitLines(data) ==
  LET ends == {i \in 1..Len(data) : data[i] = NL}
                \cup (IF data # <<>> /\ data[Len(data)] # NL
                      THEN {Len(data) + 1} ELSE {})
      End(k) == CHOOSE p \in ends : Cardinality({q \in ends : q <= p}) = k
      Start(k) == IF k = 1 THEN 1 ELSE End(k - 1) + 1
  IN  [k \in 1..Cardinality(ends) |-> SubSeq(data, Start(k), End(k) - 1)]

RECURSIVE Concat(_)
Concat(texts) == IF texts = <<>> THEN <<>> ELSE texts[1] \o Concat(Tail(texts))

Done == pc = "done"

Loaded == cookies.t # "unset"

SummaryShown == \E i \in 1..Len(stdout) : stdout[i].m \in {"Converted", "Saved to"}

FailureReported ==
  \/ exc # "none"
  \/ \E i \in 1..Len(stdout) : stdout[i].m = "No cookies found in JSON. Aborting."

\* a cookie record as the data model describes it
AbsentOr(v, types) == v.t = "absent" \/ v.t \in types

ValidRecord(c) ==
  /\ c.isMap
  /\ AbsentOr(c.domain, {"str"})
  /\ AbsentOr(c.path, {"str"})
  /\ AbsentOr(c.secure, {"bool"})
  /\ AbsentOr(c.expirationDate, {"int", "float"})
  /\ AbsentOr(c.name, {"str"})
  /\ AbsentOr(c.value, {"str"})

ValidArray(top) ==
  /\ top.t = "arr"
  /\ Len(top.items) >= 1
  /\ \A i \in 1..Len(top.items) : ValidRecord(top.items[i])

HasLineBreak(v) == \E k \in 1..Len(v.s) : v.s[k] = NL

NoLineBreaks(top) ==
  \A i \in 1..Len(top.items) :
    LET c == top.items[i]
    IN  ~(HasLineBreak(c.domain) \/ HasLineBreak(c.path)
          \/ HasLineBreak(c.name) \/ HasLineBreak(c.value))

\* header, blank line, then line i+2 from record i and nothing else
LinesAreRecords ==
  LET L == SplitLines(outFile.data)
      n == Len(cookies.items)
  IN  /\ Len(L) = n + 2
      /\ L[1] = HeaderLine
      /\ L[2] = <<>>
      /\ \A i \in 1..n :
           L[i + 2] = JoinWith(TAB, MapCookie(cookies.items[i]).fields)

\* C1 as stated: for every valid non-empty array of cookie records, after a
\* successful run the output holds exactly len(input) + 2 lines: the header
\* line, a blank line, then one line per record in input order, whatever the
\* file held before.
C1_Original ==
  (Done /\ exitCode = 0 /\ ValidArray(cookies)) => LinesAreRecords

\* C1 (amended): the same, for arrays in which no domain, path, name or
\* value contains a line break.
C1_LineCount ==
  (Done /\ exitCode = 0 /\ ValidArray(cookies) /\ NoLineBreaks(cookies))
    => LinesAreRecords

C1_Witness ==
  /\ Done /\ exitCode = 0
  /\ ValidArray(cookies) /\ NoLineBreaks(cookies)
  /\ Len(cookies.items) = 2
  /\ cookies.items[1] # cookies.items[2]
  /\ outFile0.exists /\ outFile0.data # <<>>
  /\ Len(SplitLines(outFile.data)) = 4

\* C2: for every record written, the second field of its line is "TRUE"
\* exactly when the record's domain starts with "."; an absent or empty
\* domain gives "FALSE".
C2_IncludeSubdomains ==
  \A i \in 1..Len(written) :
    LET d == cookies.items[i].domain
        dom == IF d.t = "absent" THEN <<>> ELSE d.s
        dotted == dom # <<>> /\ dom[1] = "."
        flag == IF dotted THEN T_TRUE ELSE T_FALSE
        text == dom \o <<TAB>> \o flag \o <<TAB>>
    IN  /\ written[i][2] = flag
        /\ (d.t = "absent" \/ d = JStr(<<>>)) => written[i][2] = T_FALSE
        /\ SubSeq(JoinWith(TAB, written[i]), 1, Len(text)) = text

C2_Witness ==
  /\ Done
  /\ Len(written) = 2
  /\ written[1][2] = T_TRUE
  /\ written[2][2] = T_FALSE
  /\ cookies.items[2].domain = JStr(<<"a", ".">>)

\* C3: each record's line is domain, includeSubdomains, path, secure,
\* expires, name, value joined by tabs; an absent key takes its default
\* ("", "/", "FALSE", "2147483647", "", ""); a numeric expirationDate is
\* written as its integer truncation (1700000000.7 gives "1700000000");
\* a record's line depends on that record alone.
C3_Expected(c, k) ==
  CASE k = 1 -> IF c.domain.t = "absent" THEN <<>> ELSE c.domain.s
    [] k = 3 -> IF c.path.t = "absent" THEN <<"/">> ELSE c.path.s
    [] k = 6 -> IF c.name.t = "absent" THEN <<>> ELSE c.name.s
    [] k = 7 -> IF c.value.t = "absent" THEN <<>> ELSE c.value.s

C3_FieldMapping ==
  /\ \A i \in 1..Len(written) :
       LET c == cookies.items[i]
           e == c.expirationDate
       IN  /\ Len(written[i]) = 7
           /\ \A k \in {1, 3, 6, 7} : written[i][k] = C3_Expected(c, k)
           /\ written[i][2] \in {T_TRUE, T_FALSE}
           /\ written[i][4] \in {T_TRUE, T_FALSE}
           /\ c.secure.t = "absent" => written[i][4] = T_FALSE
           /\ c.secure = JBool(TRUE) => written[i][4] = T_TRUE
           /\ c.secure = JBool(FALSE) => written[i][4] = T_FALSE
           /\ e.t = "absent" =>
                written[i][5] = <<"2", "1", "4", "7", "4", "8", "3", "6", "4", "7">>
           /\ e = JInt(17) => written[i][5] = <<"1", "7">>
           /\ e = JFloat(FALSE, 1700000000, 7) =>
                written[i][5] = <<"1", "7", "0", "0", "0", "0", "0", "0", "0", "0">>
           /\ e = JFloat(TRUE, 1, 7) => written[i][5] = <<"-", "1">>
           /\ \A j \in 1..Len(written) :
                cookies.items[j] = c => written[j] = written[i]
  /\ pc \in {"loop", "check", "summary", "done"} /\ Loaded =>
       outFile.data =
         Header \o Concat([i \in 1..Len(written) |->
                             JoinWith(TAB, written[i]) \o <<NL>>])

C3_Witness ==
  /\ Done /\ exitCode = 0
  /\ Len(written) = 2
  /\ cookies.items[1] = EmptyCookie
  /\ cookies.items[2].expirationDate = JFloat(TRUE, 1, 7)
  /\ written[1] = <<<<>>, T_FALSE, <<"/">>, T_FALSE,
                    <<"2", "1", "4", "7", "4", "8", "3", "6", "4", "7">>,
                    <<>>, <<>>>>

\* C4: a run whose input parses to an empty array reports a failure and
\* ends with exit code 1 without ever printing the summary; exit code 0
\* comes only from runs on a non-empty input.
C4_EmptyAborts ==
  /\ cookies = Top("arr", <<>>) =>
       /\ ~SummaryShown
       /\ exitCode # 0
       /\ Done => exitCode = 1 /\ FailureReported
  /\ exitCode = 0 => inFile.st = "json" /\ Len(inFile.top.items) >= 1

C4_Witness ==
  /\ Done
  /\ cookies = Top("arr", <<>>)
  /\ exitCode = 1
  /\ stdout = <<Msg("No cookies found in JSON. Aborting.", 0)>>

\* C5 as stated: valid JSON that is not an array of mappings fails with the
\* same failure kind as content that is not valid JSON.
ArrayOfMappings(top) ==
  top.t = "arr" /\ \A i \in 1..Len(top.items) : top.items[i].isMap

C5_Original ==
  (Done /\ Loaded /\ ~ArrayOfMappings(cookies)) => exc = "JSONDecodeError"

\* C6: when the input is missing, unreadable or not valid JSON the run ends
\* before the output file is opened: the file is as it was before the run
\* and no summary is printed.
C6_NoOutputOnLoadFailure ==
  inFile.st \in {"missing", "unreadable", "malformed"} =>
    /\ ~outOpen
    /\ outFile = outFile0
    /\ ~SummaryShown
    /\ pc \in {"start", "open_in", "load", "done"}
    /\ Done => exitCode = 1

C6_Witness ==
  /\ Done
  /\ inFile.st = "malformed"
  /\ exc = "JSONDecodeError"
  /\ outFile0.exists
  /\ outFile = outFile0

\* C7: on every exit path both handles are closed before the program goes
\* on or exits, and the input handle is closed before the output handle is
\* opened: the two are never open together.
C7_HandlesScoped ==
  /\ ~(inOpen /\ outOpen)
  /\ pc \in {"open_out", "header", "loop", "check", "summary", "done"} => ~inOpen
  /\ pc \in {"check", "summary", "done"} => ~outOpen

C7_Witness ==
  /\ Done
  /\ exc \in {"AttributeError", "TypeError", "ValueError"}
  /\ Len(written) >= 1
  /\ ~inOpen /\ ~outOpen

\* C8 as stated: for the one-record example input, the second line of the
\* output is the record's line.
C8_Line ==
  <<".", "e", "x", "a", "m", "p", "l", "e", ".", "c", "o", "m", TAB,
    "T", "R", "U", "E", TAB, "/", TAB, "T", "R", "U", "E", TAB,
    "2", "1", "4", "7", "4", "8", "3", "6", "4", "7", TAB,
    "s", "i", "d", TAB, "a", "b", "c", "1", "2", "3">>

C8_Original ==
  (Done /\ cookies = Top("arr", <<C8Cookie>>)) =>
    SplitLines(outFile.data)[2] = C8_Line

\* C8 (amended): for the example input the record's line is the third line
\* of the output, the first one after the two header lines.
C8_ThirdLine ==
  (Done /\ cookies = Top("arr", <<C8Cookie>>)) =>
    /\ exitCode = 0
    /\ SplitLines(outFile.data) = <<HeaderLine, <<>>, C8_Line>>

C8_Witness ==
  /\ Done
  /\ cookies = Top("arr", <<C8Cookie>>)
  /\ Len(SplitLines(outFile.data)) = 3

\* C9: the output is opened and the header written before the emptiness
\* check: after a run on an empty array the file exists and holds exactly
\* the two header lines, its earlier content gone, and the run has failed.
C9_HeaderOnlyOnEmpty ==
  /\ pc = "check" =>
       /\ outFile.exists
       /\ ~outOpen
       /\ SubSeq(outFile.data, 1, Len(Header)) = Header
  /\ (Done /\ cookies = Top("arr", <<>>)) =>
       /\ outFile = [exists |-> TRUE, data |-> Header]
       /\ SplitLines(outFile.data) = <<HeaderLine, <<>>>>
       /\ exitCode = 1

C9_Witness ==
  /\ Done
  /\ cookies = Top("arr", <<>>)
  /\ outFile0.exists /\ outFile0.data # <<>>
  /\ outFile.data = Header
  /\ exitCode = 1

\* C10: no partial success.  The summary is printed, and the run exits 0,
\* only after the output was closed holding the line of every one of the
\* N = len(input) >= 1 records; when the mapping of some record fails the
\* run exits non-zero without a summary, and the file keeps the header and
\* the lines of the records before the failing one.
FirstFailing(items) ==
  CHOOSE k \in 1..Len(items) :
    /\ MapCookie(items[k]).err # "none"
    /\ \A j \in 1..(k - 1) : MapCookie(items[j]).err = "none"

C10_NoPartialSuccess ==
  /\ (SummaryShown \/ exitCode = 0) =>
       /\ Done /\ exitCode = 0 /\ SummaryShown
       /\ ~outOpen
       /\ Len(cookies.items) >= 1
       /\ Len(written) = Len(cookies.items)
       /\ stdout[1] = Msg("Converted", Len(cookies.items))
       /\ outFile.data =
            Header \o Concat([i \in 1..Len(cookies.items) |->
                                Line(MapCookie(cookies.items[i]).fields)])
  /\ (Done /\ Loaded
        /\ \E i \in 1..Len(cookies.items) : MapCookie(cookies.items[i]).err # "none") =>
       /\ exitCode # 0
       /\ ~SummaryShown
       /\ exc # "none"
       /\ LET k == FirstFailing(cookies.items)
          IN  outFile.data =
                Header \o Concat([i \in 1..(k - 1) |->
                                    Line(MapCookie(cookies.items[i]).fields)])

C10_Witness ==
  /\ Done
  /\ Len(cookies.items) = 2
  /\ Len(written) = 1
  /\ exc = "ValueError"
  /\ exitCode = 1
  /\ Len(SplitLines(outFile.data)) = 3

====
